---- MODULE Spec2Model ----
(***************************************************************************)
(* Model of the prediction backend: the lazily loaded artifact cache       *)
(* (predictor.py load_model_artifacts), the real-estate pipeline           *)
(* (real_estate_predict), the dummy pipeline, the Predictor registry and   *)
(* the two HTTP handlers of main.py that call into it.                     *)
(*                                                                         *)
(* Strings that the code takes apart or builds (locations, column names)   *)
(* are sequences of tokens: " " is one whitespace character, "Location_"   *)
(* is the one-hot prefix, every other token is a run of letters.  Numbers  *)
(* are integers; a price, which the code holds as a float, is an exact     *)
(* fraction <<num, den>> with den > 0, so comparisons are exact.  Python's *)
(* True/False are the integers 1/0.                                        *)
(***************************************************************************)
EXTENDS Integers, Sequences, FiniteSets, TLC

VARIABLES
    file,              \* what is at MODEL_PATH: Absent or a pickled bundle
    _model_artifacts,  \* predictor.py:19, the module-level cache (None or a bundle)
    loads,             \* how many times pickle.load has run (history)
    _models,           \* Predictor._models: name -> pipeline
    regLog,            \* every register call so far, <<name, fn>> records (history)
    regErr,            \* what the latest register call raised
    pc,                \* per request thread: where it is
    req,               \* per request thread: the request being served
    loaded,            \* per request thread: the object pickle.load returned
    out,               \* per request thread: what the pipeline produced or raised
    http               \* per request thread: the HTTP response

vars == <<file, _model_artifacts, loads, _models, regLog, regErr,
          pc, req, loaded, out, http>>

\* ------------------------------------------------------------------ bounds
MaxArea == 2
MaxBHK == 3
MaxBathrooms == 1
MaxAge == 1
MaxRegisterCalls == 2

\* schemas.py: the limits of RealEstatePredictionRequest
SchemaMaxBHK == 5
SchemaMaxBathrooms == 5
SchemaMaxAge == 50

Threads == {"t1", "t2"}
MainThread == "t1"

\* ---------------------------------------------------------------- strings
Range(s) == {s[i] : i \in 1..Len(s)}

WS == " "
LocationPrefix == "Location_"

RECURSIVE lstrip(_)
lstrip(s) == IF s # <<>> /\ Head(s) = WS THEN lstrip(Tail(s)) ELSE s

RECURSIVE rstrip(_)
rstrip(s) == IF s # <<>> /\ s[Len(s)] = WS THEN rstrip(SubSeq(s, 1, Len(s) - 1)) ELSE s

\* str.strip()
strip(s) == rstrip(lstrip(s))

\* f'Location_{location}'
LocationColName(location) == <<LocationPrefix>> \o location

\* col.replace('Location_', ''): every occurrence goes, not only a leading one
RemoveLocationPrefix(col) == SelectSeq(col, LAMBDA tok: tok # LocationPrefix)

AreaCol == <<"Area">>
BHKCol == <<"BHK">>
BathroomsCol == <<"Bathrooms">>
AgeCol == <<"Age">>
ParkingCol == <<"Parking">>
\* the keys of input_data in insertion order, before the location columns
NumericCols == <<AreaCol, BHKCol, BathroomsCol, AgeCol, ParkingCol>>

\* -------------------------------------------------------------- fractions
Rat(n, d) == <<n, d>>
RatAdd(a, b) == <<a[1] * b[2] + b[1] * a[2], a[2] * b[2]>>
RatMulInt(a, k) == <<a[1] * k, a[2]>>
RatDivInt(a, k) == <<a[1], a[2] * k>>
RatLess(a, b) == a[1] * b[2] < b[1] * a[2]

\* round(x, 2), in hundredths: to the nearest, a tie to the even neighbour
Round2(a) ==
    LET n == 100 * a[1]
        q == n \div a[2]
        r == n - q * a[2]
    IN  IF 2 * r < a[2] THEN q
        ELSE IF 2 * r > a[2] THEN q + 1
        ELSE IF q % 2 = 0 THEN q ELSE q + 1

\* ----------------------------------------------------------------- bundle
\* the file and the cache hold <<>> (no file, None) or <<bundle>>
Absent == <<>>
None == <<>>

BundleKeys == {"model", "scaler", "feature_columns", "location_columns", "market_stats"}

Loc(name) == LocationColName(<<name>>)

\* What train_model.py pickles: feature_columns is X.columns, the numeric
\* columns in the dataset's order followed by the one-hot columns;
\* location_columns is the one-hot columns; the model and the scaler are
\* fitted on exactly those columns.
TrainedA ==
    [model |-> [coef |-> <<7, 2, 0, 1, -1, 0, 3>>, intercept |-> 9],
     scaler |-> [mean |-> <<1, 1, 0, 0, 0, 0, 0>>, scale |-> <<1, 1, 1, 1, 1, 1, 1>>],
     feature_columns |-> NumericCols \o <<Loc("Nerul"), Loc("Vashi")>>,
     location_columns |-> <<Loc("Nerul"), Loc("Vashi")>>,
     market_stats |-> [avg_price |-> 20, avg_price_per_sqft |-> 10]]

\* a dataset whose columns come in another order; prices with three decimals
TrainedB ==
    [model |-> [coef |-> <<1, 8999, 0, 0, 0, 2, 0>>, intercept |-> -1],
     scaler |-> [mean |-> <<0, 0, 0, 0, 0, 0, 0>>, scale |-> <<1, 1000, 1, 1, 1, 1, 1>>],
     feature_columns |-> <<BHKCol, AreaCol, ParkingCol, AgeCol, BathroomsCol,
                           Loc("Panvel"), Loc("Vashi")>>,
     location_columns |-> <<Loc("Panvel"), Loc("Vashi")>>,
     market_stats |-> [avg_price |-> 20, avg_price_per_sqft |-> 10]]

TrainedBundles == {TrainedA, TrainedB}

\* Files that unpickle to a dict but were not written by this training run.
\* the model has one coefficient fewer than there are feature columns
ShortCoef ==
    [TrainedA EXCEPT !.model = [coef |-> <<7, 2, 0, 1, -1, 0>>, intercept |-> 9]]
\* a location column that is no feature column
StrayLocation ==
    [TrainedA EXCEPT !.location_columns = @ \o <<Loc("Thane")>>]
\* a feature column the pipeline never fills in
ExtraFeature ==
    [model |-> [coef |-> <<7, 2, 0, 1, -1, 0, 3, 1>>, intercept |-> 9],
     scaler |-> [mean |-> <<1, 1, 0, 0, 0, 0, 0, 0>>, scale |-> <<1, 1, 1, 1, 1, 1, 1, 1>>],
     feature_columns |-> TrainedA.feature_columns \o << <<"Floor">> >>,
     location_columns |-> TrainedA.location_columns,
     market_stats |-> TrainedA.market_stats]
\* a dict without the 'market_stats' key
NoMarketStats ==
    [model |-> TrainedA.model, scaler |-> TrainedA.scaler,
     feature_columns |-> TrainedA.feature_columns,
     location_columns |-> TrainedA.location_columns]

ForeignBundles == {ShortCoef, StrayLocation, ExtraFeature, NoMarketStats}

BundleFiles == TrainedBundles \cup ForeignBundles

\* ------------------------------------------------------------------ input
Opt(v) == [has |-> TRUE, v |-> v]
Missing == [has |-> FALSE, v |-> 0]
MissingStr == [has |-> FALSE, v |-> <<>>]

Entry(k, o) == IF o.has THEN k :> o.v ELSE <<>>

\* the features mapping handed to a pipeline
Features(location, area, bhk, bathrooms, age, parking) ==
    Entry("location", location) @@ Entry("area", area) @@ Entry("bhk", bhk)
        @@ Entry("bathrooms", bathrooms) @@ Entry("age", age)
        @@ Entry("parking", parking)

\* dict.get(key, default)
DictGet(d, k, default) == IF k \in DOMAIN d THEN d[k] ELSE default

LocationInputs ==
    {MissingStr, Opt(<<>>), Opt(<<WS, WS>>), Opt(<<"Vashi">>), Opt(<<WS, "Vashi", WS>>),
     Opt(<<"Nerul">>), Opt(<<"Thane">>), Opt(<<"vashi">>)}

FeatureInputs ==
    {Features(l, a, b, ba, ag, p) :
        l \in LocationInputs,
        a \in {Missing} \cup {Opt(n) : n \in 0..MaxArea},
        b \in {Missing} \cup {Opt(n) : n \in 0..MaxBHK},
        ba \in {Missing} \cup {Opt(n) : n \in 0..MaxBathrooms},
        ag \in {Missing} \cup {Opt(n) : n \in 0..MaxAge},
        p \in {Missing, Opt(0), Opt(1)}}

\* the few requests the concurrent specification sends
ServingFeatures ==
    {Features(Opt(<<"Vashi">>), Opt(1), Opt(1), Opt(1), Opt(0), Opt(1)),
     Features(Opt(<<"Thane">>), Opt(1), Opt(1), Opt(1), Opt(0), Opt(1)),
     Features(Opt(<<WS>>), Opt(1), Opt(1), Opt(1), Opt(0), Opt(0))}

\* schemas.py RealEstatePredictionRequest: what the typed endpoint lets through
SchemaLocations == {<<"Vashi">>, <<"Nerul">>, <<"Kharghar">>, <<"Panvel">>}
SchemaValid(f) ==
    /\ DOMAIN f = {"location", "area", "bhk", "bathrooms", "age", "parking"}
    /\ f["location"] \in SchemaLocations
    /\ f["area"] > 0
    /\ f["bhk"] >= 1 /\ f["bhk"] <= SchemaMaxBHK
    /\ f["bathrooms"] >= 1 /\ f["bathrooms"] <= SchemaMaxBathrooms
    /\ f["age"] >= 0 /\ f["age"] <= SchemaMaxAge
    /\ f["parking"] \in {0, 1}

\* --------------------------------------------------------------- outcomes
NoPrice == Rat(0, 1)
NoResult == [predicted_price |-> 0, price_per_sqft |-> 0, market_status |-> ""]

\* what a call produced: exc = "none" and a returned value, or an exception
Blank ==
    [exc |-> "none", msg |-> "", unknown |-> <<>>, valid |-> <<>>, stages |-> <<>>,
     encoded |-> <<>>, price |-> NoPrice, ret |-> "none", result |-> NoResult,
     value |-> 0]

Raise(exc, msg, stages) == [Blank EXCEPT !.exc = exc, !.msg = msg, !.stages = stages]

\* ------------------------------------------------- real_estate_predict parts
\* predictor.py:69-74, the extraction with its defaults; the values given are
\* integers (True and False among them), which float() and int() keep
ExtractInputs(features) ==
    [location |-> strip(DictGet(features, "location", <<>>)),
     area |-> DictGet(features, "area", 0),
     bhk |-> DictGet(features, "bhk", 0),
     bathrooms |-> DictGet(features, "bathrooms", 0),
     age |-> DictGet(features, "age", 0),
     parking |-> DictGet(features, "parking", 0)]

ValidationError_AreaNegativeOnly(inp) ==
    IF inp.location = <<>> THEN "Location is required"
    ELSE IF inp.area < 0 THEN "Area must be greater than 0"
    ELSE IF inp.bhk <= 0 THEN "BHK must be greater than 0"
    ELSE ""

\* predictor.py:77-82, "" when the input passes
ValidationError(inp) ==
    IF inp.location = <<>> THEN "Location is required"
    ELSE IF inp.area <= 0 THEN "Area must be greater than 0"
    ELSE IF inp.bhk <= 0 THEN "BHK must be greater than 0"
    ELSE ""

\* a dict keeps its keys in insertion order; assigning to a key it has keeps
\* the key's place
RECURSIVE Dedup(_, _)
Dedup(s, seen) ==
    IF s = <<>> THEN <<>>
    ELSE IF Head(s) \in seen THEN Dedup(Tail(s), seen)
    ELSE <<Head(s)>> \o Dedup(Tail(s), seen \cup {Head(s)})

\* predictor.py:85-96, input_data before the location is set: the columns in
\* insertion order and their values, every location column at 0
InputData(inp, location_columns) ==
    [cols |-> Dedup(NumericCols \o location_columns, {}),
     val |-> [c \in Range(NumericCols) \cup Range(location_columns) |->
                IF c \in Range(location_columns) THEN 0
                ELSE IF c = AreaCol THEN inp.area
                ELSE IF c = BHKCol THEN inp.bhk
                ELSE IF c = BathroomsCol THEN inp.bathrooms
                ELSE IF c = AgeCol THEN inp.age
                ELSE inp.parking]]

\* predictor.py:101, input_data[location_col_name] = [1]
SetLocation(input_data, col) == [input_data EXCEPT !.val[col] = 1]

ValidLocationNames_Unstripped(location_columns) == location_columns

\* predictor.py:105, the names listed by the unknown-location message
ValidLocationNames(location_columns) ==
    [i \in 1..Len(location_columns) |-> RemoveLocationPrefix(location_columns[i])]

Reorder_KeepInsertionOrder(input_data, feature_columns) ==
    [i \in 1..Len(input_data.cols) |-> input_data.val[input_data.cols[i]]]

\* predictor.py:112, input_df[feature_columns]: the row in the training order
\* (every feature column is a key of input_data, see MissingColumns)
Reorder(input_data, feature_columns) ==
    [i \in 1..Len(feature_columns) |-> input_data.val[feature_columns[i]]]

\* the feature columns input_df[feature_columns] cannot find (pandas: KeyError)
MissingColumns(input_data, feature_columns) ==
    {c \in Range(feature_columns) : c \notin DOMAIN input_data.val}

\* predictor.py:115, StandardScaler.transform: (x - mean) / scale per column;
\* it refuses a row of another width
ScalerFits(scaler, row) == Len(scaler.mean) = Len(row) /\ Len(scaler.scale) = Len(row)
ScalerTransform(scaler, row) ==
    [i \in 1..Len(row) |-> Rat(row[i] - scaler.mean[i], scaler.scale[i])]

\* predictor.py:118, LinearRegression.predict: intercept + coef . x
ModelFits(model, scaled) == Len(model.coef) = Len(scaled)
RECURSIVE Dot(_, _, _)
Dot(coef, scaled, i) ==
    IF i > Len(scaled) THEN Rat(0, 1)
    ELSE RatAdd(RatMulInt(scaled[i], coef[i]), Dot(coef, scaled, i + 1))
ModelPredict(model, scaled) == RatAdd(Rat(model.intercept, 1), Dot(model.coef, scaled, 1))

\* predictor.py:121
PricePerSqft(predicted_price, area) ==
    IF area > 0 THEN RatDivInt(predicted_price, area) ELSE Rat(0, 1)

MarketStatus_Inclusive(price_per_sqft, avg_price_per_sqft) ==
    IF ~RatLess(Rat(avg_price_per_sqft * 90, 100), price_per_sqft) THEN "Below Market"
    ELSE IF ~RatLess(price_per_sqft, Rat(avg_price_per_sqft * 110, 100)) THEN "Above Market"
    ELSE "Average"

\* predictor.py:129-134
MarketStatus(price_per_sqft, avg_price_per_sqft) ==
    IF RatLess(price_per_sqft, Rat(avg_price_per_sqft * 90, 100)) THEN "Below Market"
    ELSE IF RatLess(Rat(avg_price_per_sqft * 110, 100), price_per_sqft) THEN "Above Market"
    ELSE "Average"

\* predictor.py:61-140 after load_model_artifacts has returned `artifacts`
real_estate_predict(features, artifacts) ==
    IF ~(BundleKeys \subseteq DOMAIN artifacts)
    THEN Raise("KeyError", "artifacts", <<>>)
    ELSE
    LET inp == ExtractInputs(features)
        invalid == ValidationError(inp)
        location_columns == artifacts.location_columns
        feature_columns == artifacts.feature_columns
        location_col_name == LocationColName(inp.location)
    IN
    IF invalid # "" THEN Raise("ValueError", invalid, <<>>)
    ELSE IF location_col_name \notin Range(location_columns)
    THEN [Raise("ValueError", "Unknown location", <<"encode">>) EXCEPT
             !.unknown = inp.location,
             !.valid = ValidLocationNames(location_columns)]
    ELSE
    LET input_data == SetLocation(InputData(inp, location_columns), location_col_name)
    IN
    IF MissingColumns(input_data, feature_columns) # {}
    THEN Raise("KeyError", "not in index", <<"encode">>)
    ELSE
    LET input_df == Reorder(input_data, feature_columns)
    IN
    IF ~ScalerFits(artifacts.scaler, input_df)
    THEN [Raise("ValueError", "feature count", <<"encode", "scale">>) EXCEPT
             !.encoded = input_df]
    ELSE
    LET input_scaled == ScalerTransform(artifacts.scaler, input_df)
    IN
    IF ~ModelFits(artifacts.model, input_scaled)
    THEN [Raise("ValueError", "feature count", <<"encode", "scale", "model">>) EXCEPT
             !.encoded = input_df]
    ELSE
    LET predicted_price == ModelPredict(artifacts.model, input_scaled)
        price_per_sqft == PricePerSqft(predicted_price, inp.area)
        market_status ==
            MarketStatus(price_per_sqft, artifacts.market_stats.avg_price_per_sqft)
    IN  [Blank EXCEPT
            !.stages = <<"encode", "scale", "model", "classify">>,
            !.encoded = input_df,
            !.price = predicted_price,
            !.ret = "real_estate",
            !.result = [predicted_price |-> Round2(predicted_price),
                        price_per_sqft |-> Round2(price_per_sqft),
                        market_status |-> market_status]]

\* predictor.py:143-155; the location is a string, every other value a number
NumericKeys(features) == DOMAIN features \ {"location"}
RECURSIVE SumOver(_, _)
SumOver(features, keys) ==
    IF keys = {} THEN 0
    ELSE LET k == CHOOSE x \in keys : TRUE
         IN  features[k] + SumOver(features, keys \ {k})
dummy_predict(features) ==
    IF NumericKeys(features) = {}
    THEN [Blank EXCEPT !.ret = "dummy", !.value = 0,
                       !.msg = "No numeric features provided."]
    ELSE [Blank EXCEPT !.ret = "dummy",
                       !.value = SumOver(features, NumericKeys(features)),
                       !.msg = "Dummy prediction is the sum of numeric features."]

\* ------------------------------------------------------------ the registry
Pipelines == {"dummy_predict", "real_estate_predict"}

register_KeepFirst(models, name, fn) ==
    IF name = "" \/ name \in DOMAIN models THEN models ELSE (name :> fn) @@ models

\* predictor.py:164-167, Predictor.register: the mapping afterwards (an empty
\* name raises before the assignment)
register(models, name, fn) ==
    IF name = "" THEN models ELSE (name :> fn) @@ models

registerError(name) == IF name = "" THEN "ValueError" ELSE "none"

Lookup_FallBackToDummy(models, name) ==
    IF name \in DOMAIN models THEN models[name] ELSE "dummy_predict"

\* predictor.py:169-172, Predictor.predict: the pipeline it calls, "none" when
\* it raises KeyError(name) instead
Lookup(models, name) ==
    IF name \in DOMAIN models THEN models[name] ELSE "none"

\* predictor.py:176-178, the registrations made at import
ImportRegistrations ==
    <<[name |-> "dummy", fn |-> "dummy_predict"],
      [name |-> "real_estate", fn |-> "real_estate_predict"]>>

\* --------------------------------------------------------------- main.py
\* main.py:39-52, POST /predict: anything but KeyError and ValueError escapes
\* the handler and the framework answers 500
GenericResponse(o) ==
    IF o.exc = "KeyError" THEN [status |-> 400, detail |-> "Unknown model"]
    ELSE IF o.exc = "ValueError" THEN [status |-> 422, detail |-> o.msg]
    ELSE IF o.exc # "none" THEN [status |-> 500, detail |-> "Internal Server Error"]
    ELSE [status |-> 200, detail |-> ""]

\* main.py:55-94, POST /predict/real-estate: result['predicted_price'] is
\* itself a KeyError when the pipeline returned something else
RealEstateResponse(o) ==
    IF o.exc = "KeyError" \/ (o.exc = "none" /\ o.ret # "real_estate")
    THEN [status |-> 500, detail |-> "Model error"]
    ELSE IF o.exc = "ValueError" THEN [status |-> 422, detail |-> o.msg]
    ELSE IF o.exc # "none" THEN [status |-> 500, detail |-> "Prediction failed"]
    ELSE [status |-> 200, detail |-> ""]

Response(endpoint, o) ==
    IF endpoint = "/predict" THEN GenericResponse(o) ELSE RealEstateResponse(o)

Endpoints == {"/predict", "/predict/real-estate"}

\* ------------------------------------------------------------------ state
NoRequest == [endpoint |-> "", name |-> "", features |-> <<>>, fn |-> "none"]
NoResponse == [status |-> 0, detail |-> ""]

Init ==
    /\ file = Absent
    /\ _model_artifacts = None
    /\ loads = 0
    /\ _models = register(register(<<>>, ImportRegistrations[1].name,
                                         ImportRegistrations[1].fn),
                          ImportRegistrations[2].name, ImportRegistrations[2].fn)
    /\ regLog = ImportRegistrations
    /\ regErr = "none"
    /\ pc = [t \in Threads |-> "idle"]
    /\ req = [t \in Threads |-> NoRequest]
    /\ loaded = [t \in Threads |-> <<>>]
    /\ out = [t \in Threads |-> Blank]
    /\ http = [t \in Threads |-> NoResponse]

\* the call of thread t ends with outcome o, and the handler answers
Complete(t, r, o) ==
    /\ pc' = [pc EXCEPT ![t] = "done"]
    /\ out' = [out EXCEPT ![t] = o]
    /\ http' = [http EXCEPT ![t] = Response(r.endpoint, o)]

\* A handler of main.py starts and calls predictor.predict(name, features):
\* an unregistered name raises, the dummy pipeline runs to its end, the
\* real-estate pipeline enters load_model_artifacts.
Receive(t, endpoint, name, features) ==
    /\ pc[t] = "idle"
    /\ endpoint = "/predict/real-estate" =>
            name = "real_estate" /\ SchemaValid(features)
    /\ LET fn == Lookup(_models, name)
           r == [endpoint |-> endpoint, name |-> name, features |-> features, fn |-> fn]
       IN  /\ req' = [req EXCEPT ![t] = r]
           /\ loaded' = [loaded EXCEPT ![t] = <<>>]
           /\ IF fn = "none" THEN Complete(t, r, Raise("KeyError", name, <<>>))
              ELSE IF fn = "dummy_predict" THEN Complete(t, r, dummy_predict(features))
              ELSE /\ pc' = [pc EXCEPT ![t] = "check"]
                   /\ out' = [out EXCEPT ![t] = Blank]
                   /\ http' = [http EXCEPT ![t] = NoResponse]
    /\ UNCHANGED <<file, _model_artifacts, loads, _models, regLog, regErr>>

\* predictor.py:26, if _model_artifacts is None
LoadCheck(t) ==
    /\ pc[t] = "check"
    /\ pc' = [pc EXCEPT ![t] = IF _model_artifacts = None THEN "exists" ELSE "return"]
    /\ UNCHANGED <<file, _model_artifacts, loads, _models, regLog, regErr,
                   req, loaded, out, http>>

LoadExists_CachesDefault(t) ==
    /\ pc[t] = "exists"
    /\ IF file = Absent
       THEN /\ _model_artifacts' = <<TrainedA>>
            /\ pc' = [pc EXCEPT ![t] = "return"]
            /\ UNCHANGED <<out, http>>
       ELSE /\ pc' = [pc EXCEPT ![t] = "read"]
            /\ UNCHANGED <<_model_artifacts, out, http>>
    /\ UNCHANGED <<file, loads, _models, regLog, regErr, req, loaded>>

\* predictor.py:27-31, if not MODEL_PATH.exists(): raise FileNotFoundError
LoadExists(t) ==
    /\ pc[t] = "exists"
    /\ IF file = Absent
       THEN Complete(t, req[t], Raise("FileNotFoundError", "Model file not found", <<>>))
       ELSE /\ pc' = [pc EXCEPT ![t] = "read"]
            /\ UNCHANGED <<out, http>>
    /\ UNCHANGED <<file, _model_artifacts, loads, _models, regLog, regErr, req, loaded>>

\* predictor.py:33-34, open(MODEL_PATH) and pickle.load(f): the value is on
\* the thread's stack, not yet in the global (the file is never removed once
\* written, so open finds it)
LoadRead(t) ==
    /\ pc[t] = "read"
    /\ loaded' = [loaded EXCEPT ![t] = file]
    /\ loads' = loads + 1
    /\ pc' = [pc EXCEPT ![t] = "assign"]
    /\ UNCHANGED <<file, _model_artifacts, _models, regLog, regErr, req, out, http>>

\* predictor.py:34, the store to the global _model_artifacts
LoadAssign(t) ==
    /\ pc[t] = "assign"
    /\ _model_artifacts' = loaded[t]
    /\ pc' = [pc EXCEPT ![t] = "return"]
    /\ UNCHANGED <<file, loads, _models, regLog, regErr, req, loaded, out, http>>

\* predictor.py:39 return _model_artifacts, then predictor.py:62-140 on what
\* was returned: a computation on the thread's own data
LoadReturnAndRun(t) ==
    /\ pc[t] = "return"
    /\ Complete(t, req[t], real_estate_predict(req[t].features, _model_artifacts[1]))
    /\ UNCHANGED <<file, _model_artifacts, loads, _models, regLog, regErr, req, loaded>>

\* main.py:48-52 and 77-81 (or the raise of HTTPException): the response is
\* sent and the thread goes back to the pool
Return(t) ==
    /\ pc[t] = "done"
    /\ pc' = [pc EXCEPT ![t] = "idle"]
    /\ req' = [req EXCEPT ![t] = NoRequest]
    /\ out' = [out EXCEPT ![t] = Blank]
    /\ http' = [http EXCEPT ![t] = NoResponse]
    /\ loaded' = [loaded EXCEPT ![t] = <<>>]
    /\ UNCHANGED <<file, _model_artifacts, loads, _models, regLog, regErr>>

\* train_model.py:136-155, the offline training run writes MODEL_PATH
TrainModel(b) ==
    /\ file # <<b>>
    /\ file' = <<b>>
    /\ UNCHANGED <<_model_artifacts, loads, _models, regLog, regErr,
                   pc, req, loaded, out, http>>

\* MODEL_PATH is put there by something other than this repository's training
ReplaceModelFile(b) ==
    /\ file # <<b>>
    /\ file' = <<b>>
    /\ UNCHANGED <<_model_artifacts, loads, _models, regLog, regErr,
                   pc, req, loaded, out, http>>

\* predictor.register(name, fn), between requests
Register(name, fn) ==
    /\ Len(regLog) < Len(ImportRegistrations) + MaxRegisterCalls
    /\ \A t \in Threads : pc[t] = "idle"
    /\ regLog' = Append(regLog, [name |-> name, fn |-> fn])
    /\ regErr' = registerError(name)
    /\ _models' = register(_models, name, fn)
    /\ UNCHANGED <<file, _model_artifacts, loads, pc, req, loaded, out, http>>

\* ---------------------------------------------------------- specifications
\* predictor.py:22-39 step by step, then the pipeline and the answer
load_model_artifacts(t) ==
    \/ LoadCheck(t)
    \/ LoadExists(t)
    \/ LoadRead(t)
    \/ LoadAssign(t)
    \/ LoadReturnAndRun(t)
    \/ Return(t)

ServingNames == {"dummy", "real_estate", "ghost"}

\* The server: request threads of the HTTP layer's pool call in concurrently;
\* the registry is the one built at import.
Next ==
    \/ \E t \in Threads :
            /\ pc[t] = "idle"
            /\ \E e \in Endpoints, n \in ServingNames, f \in ServingFeatures :
                    Receive(t, e, n, f)
    \/ \E t \in Threads : load_model_artifacts(t)
    \/ \E b \in TrainedBundles : TrainModel(b)
    \/ \E b \in ForeignBundles : ReplaceModelFile(b)

Spec == Init /\ [][Next]_vars

\* The registry: register and predict calls in sequence, one caller.
RegisterNames == {"", "real_estate", "extra"}
RegistryNames == {"dummy", "real_estate", "extra", "ghost"}

NextRegistry ==
    \/ \E n \in RegisterNames, fn \in Pipelines : Register(n, fn)
    \/ /\ pc[MainThread] = "idle"
       /\ \E e \in Endpoints, n \in RegistryNames, f \in ServingFeatures :
               Receive(MainThread, e, n, f)
    \/ load_model_artifacts(MainThread)
    \/ TrainModel(TrainedA)

SpecRegistry == Init /\ [][NextRegistry]_vars

\* The pipeline on every input of FeatureInputs: the training run has been
\* made, one caller.
InitPipeline ==
    /\ \E b \in TrainedBundles : file = <<b>>
    /\ _model_artifacts = None
    /\ loads = 0
    /\ _models = register(register(<<>>, ImportRegistrations[1].name,
                                         ImportRegistrations[1].fn),
                          ImportRegistrations[2].name, ImportRegistrations[2].fn)
    /\ regLog = ImportRegistrations
    /\ regErr = "none"
    /\ pc = [t \in Threads |-> "idle"]
    /\ req = [t \in Threads |-> NoRequest]
    /\ loaded = [t \in Threads |-> <<>>]
    /\ out = [t \in Threads |-> Blank]
    /\ http = [t \in Threads |-> NoResponse]

NextPipeline ==
    \/ /\ pc[MainThread] = "idle"
       /\ \E e \in Endpoints, f \in FeatureInputs : Receive(MainThread, e, "real_estate", f)
    \/ load_model_artifacts(MainThread)

SpecPipeline == InitPipeline /\ [][NextPipeline]_vars

\* ------------------------------------------------------------------ claims
Done(t) == pc[t] = "done"
RealEstateCall(t) == req[t].fn = "real_estate_predict"
Artifacts == _model_artifacts[1]

\* C1: however concurrent first requests interleave, the bundle is read from
\* durable storage at most once per process.
C1_AtMostOneLoad == loads <= 1

\* C2: while the bundle file is absent, every finished call of the real-estate
\* pipeline has failed with the not-found error and returned no prediction
\* (a server error on the typed endpoint), nothing has been read or retried,
\* and the cache is still empty, so the next request meets the same state.
C2_AbsentFileFailsUncached ==
    file = Absent =>
        /\ _model_artifacts = None
        /\ loads = 0
        /\ \A t \in Threads :
            /\ loaded[t] = <<>>
            /\ pc[t] \notin {"read", "assign", "return"}
            /\ (Done(t) /\ RealEstateCall(t)) =>
                /\ out[t].exc = "FileNotFoundError"
                /\ out[t].ret = "none"
                /\ out[t].result = NoResult
                /\ out[t].stages = <<>>
                /\ http[t].status = 500

\* C2 witness: with the file absent, two requests have both failed with the
\* not-found error, one of them on the typed endpoint.
C2_Witness ==
    /\ file = Absent
    /\ \A t \in Threads :
        Done(t) /\ RealEstateCall(t) /\ out[t].exc = "FileNotFoundError"
    /\ \E t \in Threads : req[t].endpoint = "/predict/real-estate"

\* the structural invariant of an ArtifactBundle
StructureOk(b) ==
    /\ Len(b.model.coef) = Len(b.feature_columns)
    /\ Len(b.scaler.mean) = Len(b.feature_columns)
    /\ Len(b.scaler.scale) = Len(b.feature_columns)
    /\ Range(b.location_columns) \subseteq Range(b.feature_columns)

\* C3: a bundle that violates the structural invariant (unequal lengths of
\* weights, scaler mean, scaler scale and feature_columns, or a location
\* column that is no feature column) is never stored in the cache.
C3_CacheHoldsOnlyValidBundles ==
    _model_artifacts # None => StructureOk(Artifacts)

\* C4: for a valid raw input (every field given, area and bedroom count
\* positive) whose trimmed location is recognized, the pipeline reaches the
\* scaler with a vector as long as feature_columns and in its order: the
\* Area, BHK, Bathrooms, Age and Parking slots hold the raw values, the slot
\* Location_<location> holds 1 and it is the only location slot that does,
\* every other location slot holds 0.
C4_EncodedVector ==
    \A t \in Threads :
        LET f == req[t].features
            fc == Artifacts.feature_columns
            lc == Artifacts.location_columns
            v == out[t].encoded
        IN  (/\ Done(t) /\ RealEstateCall(t)
             /\ DOMAIN f = {"location", "area", "bhk", "bathrooms", "age", "parking"}
             /\ f["area"] > 0 /\ f["bhk"] > 0
             /\ LocationColName(strip(f["location"])) \in Range(lc))
            =>
            /\ "scale" \in Range(out[t].stages)
            /\ Len(v) = Len(fc)
            /\ \A i \in 1..Len(fc) :
                /\ fc[i] = AreaCol => v[i] = f["area"]
                /\ fc[i] = BHKCol => v[i] = f["bhk"]
                /\ fc[i] = BathroomsCol => v[i] = f["bathrooms"]
                /\ fc[i] = AgeCol => v[i] = f["age"]
                /\ fc[i] = ParkingCol => v[i] = f["parking"]
                /\ fc[i] \in Range(lc) =>
                    v[i] = IF fc[i] = LocationColName(strip(f["location"])) THEN 1 ELSE 0
            /\ Cardinality({i \in 1..Len(fc) : fc[i] \in Range(lc) /\ v[i] = 1}) = 1

\* C4 witness: a finished prediction for " Vashi " against the bundle whose
\* columns are not in the pipeline's own order.
C4_Witness ==
    /\ Done(MainThread) /\ RealEstateCall(MainThread)
    /\ Artifacts = TrainedB
    /\ out[MainThread].exc = "none"
    /\ req[MainThread].features =
         Features(Opt(<<WS, "Vashi", WS>>), Opt(2), Opt(3), Opt(1), Opt(1), Opt(1))
    /\ out[MainThread].encoded = <<3, 2, 1, 1, 1, 0, 1>>

\* C5: an otherwise valid input whose trimmed location is not empty and has
\* no column in location_columns fails with the unknown-location value error
\* and no prediction, and the message lists, entry by entry, location_columns
\* with the Location_ prefix taken off.
C5_UnknownLocation ==
    \A t \in Threads :
        LET f == req[t].features
            lc == Artifacts.location_columns
        IN  (/\ Done(t) /\ RealEstateCall(t)
             /\ {"location", "area", "bhk"} \subseteq DOMAIN f
             /\ f["area"] > 0 /\ f["bhk"] > 0
             /\ strip(f["location"]) # <<>>
             /\ LocationColName(strip(f["location"])) \notin Range(lc))
            =>
            /\ out[t].exc = "ValueError"
            /\ out[t].msg = "Unknown location"
            /\ out[t].ret = "none" /\ out[t].result = NoResult
            /\ http[t].status = 422
            /\ Len(out[t].valid) = Len(lc)
            /\ \A i \in 1..Len(lc) : <<LocationPrefix>> \o out[t].valid[i] = lc[i]

\* C5 witness: "Thane" asked of a bundle that knows Nerul and Vashi.
C5_Witness ==
    /\ Done(MainThread) /\ RealEstateCall(MainThread)
    /\ DictGet(req[MainThread].features, "location", <<>>) = <<"Thane">>
    /\ out[MainThread].msg = "Unknown location"
    /\ out[MainThread].valid = << <<"Nerul">>, <<"Vashi">> >>

\* the messages that answer what is wrong with the input
InputFaults(f) ==
    (IF strip(DictGet(f, "location", <<>>)) = <<>> THEN {"Location is required"} ELSE {})
    \cup (IF DictGet(f, "area", 0) <= 0 THEN {"Area must be greater than 0"} ELSE {})
    \cup (IF DictGet(f, "bhk", 0) <= 0 THEN {"BHK must be greater than 0"} ELSE {})

\* C6: an input whose location is empty after trimming, or whose area or
\* bedroom count is missing or not positive, fails with a validation error
\* for one of those faults before any of encoding, scaling, model application
\* or classification has run, and nothing of a result is returned.
C6_ValidationFirst ==
    \A t \in Threads :
        (Done(t) /\ RealEstateCall(t) /\ InputFaults(req[t].features) # {})
        =>
        /\ out[t].exc = "ValueError"
        /\ out[t].msg \in InputFaults(req[t].features)
        /\ out[t].stages = <<>>
        /\ out[t].encoded = <<>>
        /\ out[t].price = NoPrice
        /\ out[t].ret = "none" /\ out[t].result = NoResult
        /\ http[t].status = 422

\* C6 witness: a known location with area 0 has been refused.
C6_Witness ==
    /\ Done(MainThread) /\ RealEstateCall(MainThread)
    /\ req[MainThread].features =
         Features(Opt(<<"Vashi">>), Opt(0), Opt(2), Opt(1), Opt(1), Opt(1))
    /\ out[MainThread].msg = "Area must be greater than 0"

\* C7: with price_per_area = price / area on the unrounded price, the status
\* is "Below Market" exactly when price_per_area < avg * 0.90, "Above Market"
\* exactly when price_per_area > avg * 1.10 and "Average" otherwise (so at
\* either threshold itself).  With price = pn/pd the comparisons are
\* 100 * pn < 90 * avg * pd * area and 100 * pn > 110 * avg * pd * area.
C7_MarketStatus ==
    \A t \in Threads :
        (Done(t) /\ RealEstateCall(t) /\ out[t].ret = "real_estate")
        =>
        LET area == req[t].features["area"]
            avg == Artifacts.market_stats.avg_price_per_sqft
            pn == out[t].price[1]
            pd == out[t].price[2]
            status == out[t].result.market_status
            below == 100 * pn < 90 * avg * pd * area
            above == 100 * pn > 110 * avg * pd * area
        IN  /\ pd > 0 /\ area > 0
            /\ status \in {"Below Market", "Above Market", "Average"}
            /\ status = "Below Market" <=> below
            /\ status = "Above Market" <=> above
            /\ status = "Average" <=> (~below /\ ~above)

\* C7 witness: a price per area of exactly avg * 1.10 has been classified
\* "Average".
C7_Witness ==
    /\ Done(MainThread) /\ out[MainThread].ret = "real_estate"
    /\ 100 * out[MainThread].price[1] =
         110 * Artifacts.market_stats.avg_price_per_sqft
             * out[MainThread].price[2] * req[MainThread].features["area"]
    /\ out[MainThread].result.market_status = "Average"

\* C8: a predict call that names an unregistered model fails at once with the
\* unknown-model error: no pipeline runs, no artifact load starts, and the
\* registry, the cache and the count of loads are as before.
C8_UnknownModel ==
    [][\A t \in Threads :
        (pc[t] = "idle" /\ pc'[t] # "idle" /\ req'[t].name \notin DOMAIN _models)
        =>
        /\ pc'[t] = "done"
        /\ req'[t].fn = "none"
        /\ out'[t].exc = "KeyError"
        /\ out'[t].ret = "none" /\ out'[t].stages = <<>>
        /\ _models' = _models
        /\ _model_artifacts' = _model_artifacts
        /\ loads' = loads
        /\ loaded'[t] = <<>>]_vars

\* C8 witness: after a further register call, a predict call for a name that
\* is still unregistered has failed.
C8_Witness ==
    /\ Len(regLog) > Len(ImportRegistrations)
    /\ Done(MainThread)
    /\ req[MainThread].name = "extra" /\ "extra" \notin DOMAIN _models
    /\ out[MainThread].exc = "KeyError"

\* the last register call that named n
Latest(n) ==
    CHOOSE i \in 1..Len(regLog) :
        /\ regLog[i].name = n
        /\ \A j \in (i + 1)..Len(regLog) : regLog[j].name # n

\* C9: the registry maps exactly the non-empty names registered so far, each
\* to the pipeline of the latest registration of that name; the latest
\* register call raised exactly if its name was empty; and a predict call
\* for a registered name runs that latest pipeline.
C9_LastRegistrationWins ==
    LET names == {regLog[i].name : i \in 1..Len(regLog)} \ {""}
    IN  /\ DOMAIN _models = names
        /\ \A n \in names : _models[n] = regLog[Latest(n)].fn
        /\ regErr = "ValueError" <=> regLog[Len(regLog)].name = ""
        /\ regErr \in {"none", "ValueError"}
        /\ \A t \in Threads :
            (pc[t] # "idle" /\ req[t].name \in names) =>
                /\ req[t].fn = regLog[Latest(req[t].name)].fn
                /\ (Done(t) /\ req[t].fn = "dummy_predict") =>
                        out[t].ret = "dummy" /\ out[t].exc = "none"
                /\ (Done(t) /\ req[t].fn = "real_estate_predict") =>
                        out[t].ret # "dummy"

\* C9 witness: "real_estate" was registered again, for the dummy pipeline,
\* then a register call with the empty name failed, and a predict call for
\* "real_estate" has run the dummy pipeline.
C9_Witness ==
    /\ Len(regLog) = Len(ImportRegistrations) + 2
    /\ regLog[3] = [name |-> "real_estate", fn |-> "dummy_predict"]
    /\ regLog[4].name = "" /\ regErr = "ValueError"
    /\ Done(MainThread) /\ req[MainThread].name = "real_estate"
    /\ out[MainThread].ret = "dummy"

\* C10: on POST /predict the bad-request "Unknown model" answer is given
\* exactly when the requested name is not registered, and a value error of
\* the pipeline is answered as unprocessable.
C10_UnknownModelOnlyForUnregistered ==
    \A t \in Threads :
        (Done(t) /\ req[t].endpoint = "/predict") =>
            /\ (http[t].status = 400 /\ http[t].detail = "Unknown model")
                    <=> req[t].name \notin DOMAIN _models
            /\ out[t].exc = "ValueError" => http[t].status = 422

====
